---- MODULE Spec2Model ----
(***************************************************************************)
(* Reconciliation pipeline of the Odoo operator: OdooHandler dispatching   *)
(* the Created / Updated / Deleted events of one OdooInstance to its       *)
(* ordered resource handlers, the upgrade classification of an Updated     *)
(* event and the upgrade-job handler with its repository-sync gate.        *)
(***************************************************************************)
EXTENDS Integers, Sequences, FiniteSets, TLC

(***************************************************************************)
(* Bounds of the model.                                                    *)
(***************************************************************************)
\* longest spec.upgrade.modules list an instance spec carries in the model
MaxModules == 2

(***************************************************************************)
(* Python dictionaries and values of spec.upgrade.                         *)
(***************************************************************************)
ModuleNames == {"sale"}
DatabaseNames == {"", "prod"}

RECURSIVE SeqsUpTo(_, _)
SeqsUpTo(S, n) ==
    IF n = 0 THEN {<<>>}
    ELSE LET shorter == SeqsUpTo(S, n - 1)
         IN  shorter \cup {Append(s, x) : s \in {t \in shorter : Len(t) = n - 1}, x \in S}

\* a value of the modules key: a python list of module names, or a plain
\* string (kind "str", its characters as items)
ListValue(items) == [kind |-> "list", items |-> items]
StrValue(items) == [kind |-> "str", items |-> items]
ModulesValues ==
    {ListValue(l) : l \in SeqsUpTo(ModuleNames, MaxModules)} \cup {StrValue(<<"s", "a", "l", "e">>)}

\* the upgrade mapping of a spec: the keys it has and their values (a key that
\* is not in keys holds the fixed filler value)
NoDatabase == ""
NoModules == ListValue(<<>>)
UpgradeDicts ==
    {[keys |-> k, database |-> d, modules |-> m] :
        k \in SUBSET {"database", "modules"}, d \in DatabaseNames, m \in ModulesValues}
WellFormedDict(u) ==
    /\ ("database" \notin u.keys => u.database = NoDatabase)
    /\ ("modules" \notin u.keys => u.modules = NoModules)
EmptyDict == [keys |-> {}, database |-> NoDatabase, modules |-> NoModules]

\* an instance spec, as far as the upgrade key goes: the key is there or not
NoUpgradeKey == [present |-> FALSE, upgrade |-> EmptyDict]
Specs ==
    {NoUpgradeKey} \cup
    {[present |-> TRUE, upgrade |-> u] : u \in {d \in UpgradeDicts : WellFormedDict(d)}}

\* dict.get(key, default) of python for the two keys of the upgrade mapping
GetDatabase(u, default) == IF "database" \in u.keys THEN u.database ELSE default
GetModules(u, default) == IF "modules" \in u.keys THEN u.modules ELSE default
GetUpgrade(s, default) == IF s.present THEN s.upgrade ELSE default

\* truth value python gives a dict, a str
DictTruthy(u) == u.keys # {}
StrTruthy(s) == s # ""

(***************************************************************************)
(* OdooHandler.__init__: the sub-handlers and the pipeline list.           *)
(***************************************************************************)
\* the attributes __init__ sets on the OdooHandler object
HandlerAttrs ==
    {"body", "spec", "meta", "namespace", "name", "uid", "operator_ns", "defaults",
     "_resource", "pull_secret", "odoo_user_secret", "filestore_pvc", "odoo_conf",
     "tls_cert", "deployment", "service", "ingress_route_http", "ingress_route_https",
     "ingress_route_websocket", "upgrade_job", "handlers"}
HasAttr(a) == a \in HandlerAttrs

handlers_deployment_first ==
    << "pull_secret", "odoo_user_secret", "deployment", "service",
       "ingress_route_http", "ingress_route_https", "ingress_route_websocket",
       "filestore_pvc", "odoo_conf", "tls_cert" >>

\* self.handlers
handlers ==
    << "pull_secret", "odoo_user_secret", "filestore_pvc", "odoo_conf", "tls_cert",
       "deployment", "service", "ingress_route_http", "ingress_route_https",
       "ingress_route_websocket" >>

N == Len(handlers)
HandlerNames == {handlers[k] : k \in 1..N}
IngressRoutes == {"ingress_route_http", "ingress_route_https", "ingress_route_websocket"}

Reverse(s) == [k \in 1..Len(s) |-> s[Len(s) + 1 - k]]

delete_order_forward == handlers

\* reversed(self.handlers) of on_delete
delete_order == Reverse(handlers)

VARIABLES
    spec,          \* the upgrade part of the OdooInstance spec stored on the platform
    exists,        \* exists[h]: the resource of pipeline handler h is on the platform
    jobs,          \* the upgrade jobs of the instance on the platform, oldest first
    status_upgradeJob, \* status["upgradeJob"] of the instance: the place in jobs of
                   \* the job the upgrade handler follows, 0 for none
    sync_running,  \* the repository-sync job is running
    environ,       \* names set in the operator's process environment
    pc,            \* where the operator is: idle, inside an event handler, or done
    event,         \* the kopf event being handled
    h_spec,        \* self.spec of the OdooHandler built for the event
    i,             \* position of the running loop in its handler order
    calls,         \* the handle_* calls made in the event so far, in order
    raised,        \* the handler whose call raised in the event, or "none"
    classified,    \* how on_update classified the event
    outcome,       \* how the event handler ended: ok, or error (it raised)
    fs_spec,       \* spec.filestore of the instance
    pvc,           \* the filestore claim as the platform holds it
    p_op,          \* the PVCHandler method called last
    p_before,      \* the claim on the platform when that call began
    p_calls,       \* the platform write calls that call issued
    p_raised,      \* that call raised
    p_resp,        \* the platform's answer to the last _read_resource
    p_ret,         \* what the last _read_resource returned or raised
    clusters_file, \* the file CLUSTERS_FILE: missing, garbled, or yaml with an mtime
    _clusters_cache, \* the module global _clusters_cache
    _clusters_mtime, \* the module global _clusters_mtime
    cache_filled_by, \* the instance whose reconciliation filled _clusters_cache
    g_caller,      \* the instance the last get_cluster call was made for
    g_name,        \* the name argument of that call
    g_ret,         \* what that call returned or raised
    g_hit,         \* that call was answered from _clusters_cache
    ssh_secret,    \* spec.gitProject.sshSecret of the instance, "" when it has none
    orig_secret,   \* the secret of that name in the operator's namespace
    secret,        \* the secret of that name in the instance's namespace
    route,         \* the ingress route <name>-https in the instance's namespace
    s_op,          \* the GitSecret or IngressRoute method called last
    s_resp,        \* the platform's answer to the read of that call
    s_ret,         \* what that call returned or raised
    s_body,        \* what the _get_resource_body call before it returned or raised
    d_pc,          \* where one PVCHandler call is: the method entered, or how it ended
    d_resource,    \* self._resource of that handler holds a claim
    d_platform,    \* the claim is on the platform
    d_depth,       \* the delegations between handle_create and handle_update so far
    d_flaps        \* the times the claim appeared or disappeared during the call

vars == << spec, exists, jobs, status_upgradeJob, sync_running, environ, pc, event, h_spec, i, calls,
           raised, classified, outcome,
           fs_spec, pvc, p_op, p_before, p_calls, p_raised, p_resp, p_ret,
           clusters_file, _clusters_cache, _clusters_mtime, cache_filled_by,
           g_caller, g_name, g_ret, g_hit,
           ssh_secret, orig_secret, secret, route, s_op, s_resp, s_ret, s_body,
           d_pc, d_resource, d_platform, d_depth, d_flaps >>

\* the state of the filestore claim handler
pvc_vars == << fs_spec, pvc, p_op, p_before, p_calls, p_raised, p_resp, p_ret >>

\* the state of the pipeline, the upgrade job and the event in progress
pipeline_vars == << spec, exists, jobs, status_upgradeJob, sync_running, environ, pc,
                    event, h_spec, i, calls, raised, classified, outcome >>

\* the state of the cluster registry module
cluster_vars == << clusters_file, _clusters_cache, _clusters_mtime, cache_filled_by,
                   g_caller, g_name, g_ret, g_hit >>

\* the state of the git secret and ingress route handlers
secret_vars == << ssh_secret, orig_secret, secret, route, s_op, s_resp, s_ret, s_body >>

\* the state of one handler call followed through its delegations
delegation_vars == << d_pc, d_resource, d_platform, d_depth, d_flaps >>

\* the state of the parts an event of the pipeline does not touch
aux_vars == << cluster_vars, secret_vars, delegation_vars >>

platform == << exists, jobs, status_upgradeJob >>

Call(h, op) == [h |-> h, op |-> op]

(***************************************************************************)
(* The instance being reconciled                                           *)
(***************************************************************************)
\* self.name and self.uid of the OdooHandler
InstanceName == "demo"
InstanceUid == "uid-1"

owner_reference_no_uid ==
    [api_version |-> "bemade.org/v1", kind |-> "OdooInstance", name |-> InstanceName,
     uid |-> "", block_owner_deletion |-> TRUE]

\* OdooHandler.owner_reference
owner_reference ==
    [api_version |-> "bemade.org/v1", kind |-> "OdooInstance", name |-> InstanceName,
     uid |-> InstanceUid, block_owner_deletion |-> TRUE]

(***************************************************************************)
(* The resource handlers of the pipeline (ResourceHandler and its          *)
(* create_if_missing / update_if_exists decorators).                       *)
(***************************************************************************)
\* the platform after a handle_* call of handler h that did not raise
HandlerEffect(op, h, ex) ==
    CASE op = "handle_create" -> [ex EXCEPT ![h] = TRUE]
      [] op = "handle_update" -> [ex EXCEPT ![h] = TRUE]
      [] op = "handle_delete" -> [ex EXCEPT ![h] = FALSE]

(***************************************************************************)
(* OdooHandler._is_upgrade_request                                         *)
(***************************************************************************)
_is_upgrade_request_no_len(s) ==
    LET upgrade_spec == GetUpgrade(s, EmptyDict)
        database == GetDatabase(upgrade_spec, "")
        modules == GetModules(upgrade_spec, ListValue(<<>>))
    IN  DictTruthy(upgrade_spec) /\ StrTruthy(database) /\ modules.kind = "list"

\* the truth value of
\*   upgrade_spec and database and isinstance(modules, list) and len(modules) > 0
_is_upgrade_request(s) ==
    LET upgrade_spec == GetUpgrade(s, EmptyDict)
        database == GetDatabase(upgrade_spec, "")
        modules == GetModules(upgrade_spec, ListValue(<<>>))
    IN  /\ DictTruthy(upgrade_spec)
        /\ StrTruthy(database)
        /\ modules.kind = "list"
        /\ Len(modules.items) > 0

(***************************************************************************)
(* UpgradeJob                                                              *)
(***************************************************************************)
RECURSIVE Join(_)
\* ",".join(self.modules), kept as the sequence of its pieces
Join(items) ==
    IF items = <<>> THEN <<>>
    ELSE IF Len(items) = 1 THEN <<items[1]>>
    ELSE <<items[1], ",">> \o Join(Tail(items))

\* UpgradeJob.__init__: self.modules, self.database
UpgradeJob_modules(s) == GetModules(GetUpgrade(s, EmptyDict), ListValue(<<>>))
UpgradeJob_database(s) == GetDatabase(GetUpgrade(s, EmptyDict), "")

\* UpgradeJob._get_resource_body raises: os.environ["DB_HOST"], os.environ["DB_PORT"]
\* and self.handler.git_repo_pvc
UpgradeJob_body_raises ==
    \/ "DB_HOST" \notin environ
    \/ "DB_PORT" \notin environ
    \/ ~HasAttr("git_repo_pvc")

UpgradeJob_get_resource_body_backoff6(s) ==
    [generate_name |-> InstanceName \o "-upgrade-",
     owner_references |-> << owner_reference >>,
     database |-> UpgradeJob_database(s),
     modules_str |-> Join(UpgradeJob_modules(s).items),
     backoff_limit |-> 6,
     status |-> "pending"]

\* the job UpgradeJob._get_resource_body describes: -u <modules_str> -d <database>
UpgradeJob_get_resource_body(s) ==
    [generate_name |-> InstanceName \o "-upgrade-",
     owner_references |-> << owner_reference >>,
     database |-> UpgradeJob_database(s),
     modules_str |-> Join(UpgradeJob_modules(s).items),
     backoff_limit |-> 2,
     status |-> "pending"]

\* JobHandler.handle_update reached through super(): the job is created when the
\* instance has no active job, and left alone otherwise
JobHandler_handle_update(s, js) ==
    IF \E k \in 1..Len(js) : js[k].status \in {"pending", "running"}
    THEN js
    ELSE Append(js, UpgradeJob_get_resource_body(s))

JobHandler_raises(js) ==
    /\ ~(\E k \in 1..Len(js) : js[k].status \in {"pending", "running"})
    /\ UpgradeJob_body_raises

\* UpgradeJob.handle_update raises: self.handler.git_sync_job is looked up on the
\* OdooHandler first, then the job body is built
UpgradeJob_handle_update_raises(js) ==
    \/ ~HasAttr("git_sync_job")
    \/ (~sync_running /\ JobHandler_raises(js))

\* UpgradeJob.handle_update when it does not raise
UpgradeJob_handle_update(s, js) ==
    IF ~sync_running THEN JobHandler_handle_update(s, js) ELSE js

(***************************************************************************)
(* The PostgreSQL cluster registry (postgres_clusters.py)                  *)
(***************************************************************************)
MaxMtime == 2

ClusterNames == {"a", "b"}
Instances == {"demo", "other"}

\* PostgresCluster.from_dict(name, data)
PostgresCluster(name, is_default) ==
    [name |-> name, host |-> "pg-" \o name, is_default |-> is_default]

\* the registries the file can hold: its entries in the order of the file
Registries ==
    {<<>>}
    \cup {<< PostgresCluster(n, d) >> : n \in ClusterNames, d \in BOOLEAN}
    \cup {r \in {<< PostgresCluster(n, d), PostgresCluster(m, e) >> :
                    n \in ClusterNames, m \in ClusterNames, d \in BOOLEAN, e \in BOOLEAN} :
            r[1].name # r[2].name}

\* the file: kind is missing, garbled (yaml.safe_load raises) or yaml; mtime is
\* the time of the last change of the mount
NoFile == [kind |-> "missing", data |-> <<>>, mtime |-> 0]
Files ==
    {[kind |-> k, data |-> IF k = "yaml" THEN d ELSE <<>>, mtime |-> t] :
        k \in {"missing", "garbled", "yaml"}, d \in Registries, t \in 0..MaxMtime}

\* _clusters_cache = None
NoCache == [set |-> FALSE, clusters |-> <<>>]

\* the name argument: None, or a str
NameArgs ==
    {[given |-> FALSE, value |-> ""]}
    \cup {[given |-> TRUE, value |-> v] : v \in {"", "missing"} \cup ClusterNames}
NameTruthy(name) == name.given /\ name.value # ""

Keys(clusters) == [k \in 1..Len(clusters) |-> clusters[k].name]
HasKey(clusters, n) == \E k \in 1..Len(clusters) : clusters[k].name = n
Lookup(clusters, n) == clusters[CHOOSE k \in 1..Len(clusters) : clusters[k].name = n]

\* _load_clusters: what it returns, what it leaves in the two globals, and
\* whether it answered from the cache
_load_clusters(file, cache, mtime) ==
    IF file.kind = "missing"
    THEN [clusters |-> <<>>, cache |-> cache, mtime |-> mtime, hit |-> FALSE]
    ELSE IF cache.set /\ file.mtime = mtime
    THEN [clusters |-> cache.clusters, cache |-> cache, mtime |-> mtime, hit |-> TRUE]
    ELSE IF file.kind = "garbled" \/ file.data = <<>>
    THEN [clusters |-> <<>>, cache |-> cache, mtime |-> mtime, hit |-> FALSE]
    ELSE [clusters |-> file.data, cache |-> [set |-> TRUE, clusters |-> file.data],
          mtime |-> file.mtime, hit |-> FALSE]

NoCluster == [name |-> "", host |-> "", is_default |-> FALSE]

\* get_default_cluster on the loaded clusters: the first entry flagged default
get_default_cluster(clusters) ==
    IF \E k \in 1..Len(clusters) : clusters[k].is_default
    THEN [found |-> TRUE,
          cluster |-> clusters[CHOOSE k \in 1..Len(clusters) :
                                  /\ clusters[k].is_default
                                  /\ \A j \in 1..(k - 1) : ~clusters[j].is_default]]
    ELSE [found |-> FALSE, cluster |-> NoCluster]

Returns(c) == [raises |-> "none", cluster |-> c, available |-> <<>>]
RaisesValueError(kind, available) ==
    [raises |-> kind, cluster |-> NoCluster, available |-> available]

get_cluster_default_fallback(name, clusters) ==
    IF NameTruthy(name) /\ HasKey(clusters, name.value)
    THEN Returns(Lookup(clusters, name.value))
    ELSE IF get_default_cluster(clusters).found
    THEN Returns(get_default_cluster(clusters).cluster)
    ELSE RaisesValueError("no_default", <<>>)

\* get_cluster(name) on the loaded clusters
get_cluster(name, clusters) ==
    IF NameTruthy(name) /\ HasKey(clusters, name.value)
    THEN Returns(Lookup(clusters, name.value))
    ELSE IF NameTruthy(name)
    THEN RaisesValueError("not_found",
                          IF clusters # <<>> THEN Keys(clusters) ELSE << "(none configured)" >>)
    ELSE IF get_default_cluster(clusters).found
    THEN Returns(get_default_cluster(clusters).cluster)
    ELSE RaisesValueError("no_default", <<>>)

NoName == [given |-> FALSE, value |-> ""]

\* the reconciliation of instance x resolves its cluster: get_cluster(name)
call_get_cluster ==
    \E x \in Instances, name \in NameArgs :
        LET loaded == _load_clusters(clusters_file, _clusters_cache, _clusters_mtime) IN
        /\ g_caller' = x
        /\ g_name' = name
        /\ g_ret' = get_cluster(name, loaded.clusters)
        /\ g_hit' = loaded.hit
        /\ _clusters_cache' = loaded.cache
        /\ _clusters_mtime' = loaded.mtime
        /\ cache_filled_by' = IF loaded.cache # _clusters_cache \/ loaded.mtime # _clusters_mtime
                              THEN x ELSE cache_filled_by
        /\ UNCHANGED << clusters_file, pipeline_vars, pvc_vars, secret_vars, delegation_vars >>

\* the mounted secret changes: the file is written, removed or garbled
WriteClustersFile ==
    /\ clusters_file.mtime < MaxMtime
    /\ \E f \in Files :
        /\ f.mtime = clusters_file.mtime + 1
        /\ clusters_file' = f
    /\ g_caller' = "none"
    /\ g_name' = NoName
    /\ g_ret' = Returns(NoCluster)
    /\ g_hit' = FALSE
    /\ UNCHANGED << _clusters_cache, _clusters_mtime, cache_filled_by, pipeline_vars, pvc_vars,
                    secret_vars, delegation_vars >>

\* the module as imported, before any call
ClusterIdle ==
    /\ clusters_file = NoFile
    /\ _clusters_cache = NoCache
    /\ _clusters_mtime = 0
    /\ cache_filled_by = "none"
    /\ g_caller = "none"
    /\ g_name = NoName
    /\ g_ret = Returns(NoCluster)
    /\ g_hit = FALSE

(***************************************************************************)
(* GitSecret and IngressRoute: what they read and the bodies they build    *)
(***************************************************************************)
SecretNames == {"", "git-key"}
SecretData == {"k1", "k2"}

\* a secret that is not there, None
NoSecret == [present |-> FALSE, name |-> "", owner_references |-> <<>>, data |-> ""]
\* a route that is not there
NoRoute == [present |-> FALSE, name |-> "", owner_references |-> <<>>]

\* the answer of the platform to a read of obj; absent is the record of an
\* object that is not there
PlatformGet(obj, absent, fault) ==
    IF fault # 0 THEN [status |-> fault, body |-> absent]
    ELSE IF obj.present THEN [status |-> 200, body |-> obj]
    ELSE [status |-> 404, body |-> absent]

\* GitSecret.secret_name: self.spec.get("gitProject", {}).get("sshSecret")
GitSecret_secret_name(ssh) == ssh

\* GitSecret._read_resource: None without a secret name, else what
\* read_namespaced_secret returns or raises
GitSecret_read_resource(ssh, resp) ==
    IF GitSecret_secret_name(ssh) = "" THEN [raises |-> 0, value |-> NoSecret]
    ELSE IF resp.status = 200 THEN [raises |-> 0, value |-> resp.body]
    ELSE [raises |-> resp.status, value |-> NoSecret]

\* IngressRoute._read_resource: what get_namespaced_custom_object returns or raises
IngressRoute_read_resource(resp) ==
    IF resp.status = 200 THEN [raises |-> 0, value |-> resp.body]
    ELSE [raises |-> resp.status, value |-> NoRoute]

\* GitSecret._get_resource_body: resp is the answer to its read of the secret
\* in the operator's namespace, whose data it copies
GitSecret_get_resource_body(ssh, resp) ==
    IF resp.status # 200 THEN [raises |-> resp.status, value |-> NoSecret]
    ELSE [raises |-> 0,
          value |-> [present |-> TRUE, name |-> GitSecret_secret_name(ssh),
                     owner_references |-> << owner_reference >>, data |-> resp.body.data]]

\* IngressRoute._build_ingress_route_spec: its metadata
IngressRoute_build_ingress_route_spec ==
    [present |-> TRUE,
     name |-> InstanceName \o "-https",
     owner_references |-> << owner_reference >>]

NoBody == [evaluated |-> FALSE, ssh |-> "", raises |-> 0, body |-> NoSecret]

\* the answers the last call did not get
NoAnswer == [status |-> 0, body |-> NoSecret]
NoValue == [raises |-> 0, value |-> NoSecret]

\* GitSecret._read_resource is called
git_secret_read_resource ==
    \E fault \in {0, 403, 500} :
        /\ s_op' = "GitSecret._read_resource"
        /\ s_resp' = IF GitSecret_secret_name(ssh_secret) = "" THEN NoAnswer
                     ELSE PlatformGet(secret, NoSecret, fault)
        /\ s_ret' = GitSecret_read_resource(ssh_secret, PlatformGet(secret, NoSecret, fault))
        /\ UNCHANGED << ssh_secret, orig_secret, secret, route, s_body,
                        pipeline_vars, pvc_vars, cluster_vars, delegation_vars >>

\* IngressRoute._read_resource is called
ingress_route_read_resource ==
    \E fault \in {0, 403, 500} :
        /\ s_op' = "IngressRoute._read_resource"
        /\ s_resp' = PlatformGet(route, NoRoute, fault)
        /\ s_ret' = IngressRoute_read_resource(PlatformGet(route, NoRoute, fault))
        /\ UNCHANGED << ssh_secret, orig_secret, secret, route, s_body,
                        pipeline_vars, pvc_vars, cluster_vars, delegation_vars >>

\* GitSecret._get_resource_body is called, for an instance that names a secret;
\* s_body keeps the evaluation before this one
git_secret_get_resource_body ==
    /\ GitSecret_secret_name(ssh_secret) # ""
    /\ s_op' = "GitSecret._get_resource_body"
    /\ s_resp' = PlatformGet(orig_secret, NoSecret, 0)
    /\ s_ret' = GitSecret_get_resource_body(ssh_secret, PlatformGet(orig_secret, NoSecret, 0))
    /\ s_body' = IF s_op = "GitSecret._get_resource_body"
                 THEN [evaluated |-> TRUE, ssh |-> ssh_secret,
                       raises |-> s_ret.raises, body |-> s_ret.value]
                 ELSE NoBody
    /\ UNCHANGED << ssh_secret, orig_secret, secret, route,
                    pipeline_vars, pvc_vars, cluster_vars, delegation_vars >>

\* no GitSecret or IngressRoute call is on record
Forgotten ==
    /\ s_op' = "none"
    /\ s_resp' = NoAnswer
    /\ s_ret' = NoValue
    /\ s_body' = NoBody

\* the user writes another spec.gitProject.sshSecret into the instance
EditSshSecret ==
    /\ \E n \in SecretNames \ {ssh_secret} : ssh_secret' = n
    /\ Forgotten
    /\ UNCHANGED << orig_secret, secret, route, pipeline_vars, pvc_vars, cluster_vars, delegation_vars >>

\* the secret in the operator's namespace is rotated, removed or put there
ChangeOrigSecret ==
    /\ \E o \in ({NoSecret} \cup {[present |-> TRUE, name |-> "git-key",
                                   owner_references |-> <<>>, data |-> d] : d \in SecretData})
            \ {orig_secret} : orig_secret' = o
    /\ UNCHANGED << ssh_secret, secret, route, s_op, s_resp, s_ret, s_body,
                    pipeline_vars, pvc_vars, cluster_vars, delegation_vars >>

\* the copied secret or the route is removed from the instance's namespace
RemoveResource ==
    /\ \/ secret.present /\ secret' = NoSecret /\ route' = route
       \/ route.present /\ route' = NoRoute /\ secret' = secret
    /\ Forgotten
    /\ UNCHANGED << ssh_secret, orig_secret, pipeline_vars, pvc_vars, cluster_vars, delegation_vars >>

\* the handlers before their first call, on an instance without a git secret
SecretIdle ==
    /\ ssh_secret = ""
    /\ orig_secret = NoSecret
    /\ secret = NoSecret
    /\ route = NoRoute
    /\ s_op = "none"
    /\ s_resp = NoAnswer
    /\ s_ret = NoValue
    /\ s_body = NoBody

(***************************************************************************)
(* One PVCHandler call, step by step through its delegations               *)
(***************************************************************************)
MaxFlaps == 4
MaxDepth == 4

PVCHandler_resource_uncached(cached, on_platform) ==
    [present |-> on_platform, cached |-> FALSE]

\* PVCHandler.resource: self._resource if it is set, else what _read_resource
\* finds, which is kept in self._resource
PVCHandler_resource(cached, on_platform) ==
    [present |-> cached \/ on_platform, cached |-> cached \/ on_platform]

\* @update_if_exists: handle_create is entered; a resource that is there sends
\* the call on to self.handle_update()
d_handle_create ==
    /\ d_pc = "handle_create"
    /\ LET r == PVCHandler_resource(d_resource, d_platform) IN
       /\ d_resource' = r.cached
       /\ IF r.present
          THEN /\ d_depth < MaxDepth
               /\ d_pc' = "handle_update"
               /\ d_depth' = d_depth + 1
          ELSE /\ d_pc' = "create_body"
               /\ d_depth' = d_depth
    /\ UNCHANGED << d_platform, d_flaps, pipeline_vars, pvc_vars, cluster_vars, secret_vars >>

\* @create_if_missing: handle_update is entered; a resource that is not there
\* sends the call on to self.handle_create()
d_handle_update ==
    /\ d_pc = "handle_update"
    /\ LET r == PVCHandler_resource(d_resource, d_platform) IN
       /\ d_resource' = r.cached
       /\ IF ~r.present
          THEN /\ d_depth < MaxDepth
               /\ d_pc' = "handle_create"
               /\ d_depth' = d_depth + 1
          ELSE /\ d_pc' = "update_body"
               /\ d_depth' = d_depth
    /\ UNCHANGED << d_platform, d_flaps, pipeline_vars, pvc_vars, cluster_vars, secret_vars >>

\* the body of handle_create: the create call, a conflict when the claim has
\* appeared meanwhile
d_create_body ==
    /\ d_pc = "create_body"
    /\ IF d_platform
       THEN /\ d_pc' = "raised"
            /\ UNCHANGED << d_resource, d_platform >>
       ELSE /\ d_pc' = "returned"
            /\ d_resource' = TRUE
            /\ d_platform' = TRUE
    /\ UNCHANGED << d_depth, d_flaps, pipeline_vars, pvc_vars, cluster_vars, secret_vars >>

\* the body of handle_update: self._resource = self._read_resource(), which is
\* None when the claim has disappeared meanwhile, and self._resource.spec then
\* raises; the except branch for 404 is not reached, _read_resource has caught it
d_update_body ==
    /\ d_pc = "update_body"
    /\ d_resource' = d_platform
    /\ d_pc' = IF d_platform THEN "returned" ELSE "raised"
    /\ UNCHANGED << d_platform, d_depth, d_flaps, pipeline_vars, pvc_vars, cluster_vars,
                    secret_vars >>

\* the claim appears on the platform or disappears from it while the call runs
Flap ==
    /\ d_pc \in {"handle_create", "handle_update", "create_body", "update_body"}
    /\ d_flaps < MaxFlaps
    /\ d_platform' = ~d_platform
    /\ d_flaps' = d_flaps + 1
    /\ UNCHANGED << d_pc, d_resource, d_depth, pipeline_vars, pvc_vars, cluster_vars,
                    secret_vars >>

\* the next event: a new handler object, whose handle_create or handle_update
\* is called
d_call ==
    /\ d_pc \in {"returned", "raised"}
    /\ d_pc' \in {"handle_create", "handle_update"}
    /\ d_resource' = FALSE
    /\ d_depth' = 0
    /\ d_flaps' = 0
    /\ UNCHANGED << d_platform, pipeline_vars, pvc_vars, cluster_vars, secret_vars >>

\* no call is running
DelegationIdle ==
    /\ d_pc = "returned"
    /\ d_resource = FALSE
    /\ d_platform = FALSE
    /\ d_depth = 0
    /\ d_flaps = 0

\* the parts an event of the pipeline does not touch, before their first call
AuxIdle == ClusterIdle /\ SecretIdle /\ DelegationIdle

(***************************************************************************)
(* Storage quantities: python's str order and the platform's capacity.     *)
(***************************************************************************)
\* a quantity is kept as the sequence of its characters
Sizes ==
    { <<"2", "G", "i">>, <<"5", "G", "i">>, <<"1", "0", "G", "i">>,
      <<"5", "0", "0", "M", "i">>, <<"1", "G", "i">>, <<"1", "0", "2", "4", "M", "i">> }
StorageClasses == {"standard", "fast"}

Digits == << "0", "1", "2", "3", "4", "5", "6", "7", "8", "9" >>
IsDigit(c) == \E k \in 1..10 : Digits[k] = c
DigitValue(c) == (CHOOSE k \in 1..10 : Digits[k] = c) - 1

\* ord(c) of the characters a quantity is written with
Ord(c) ==
    IF IsDigit(c) THEN 48 + DigitValue(c)
    ELSE CASE c = "G" -> 71
           [] c = "M" -> 77
           [] c = "i" -> 105

RECURSIVE StrGreater(_, _)
\* a > b of two python str: the first differing character decides, a proper
\* prefix is the smaller
StrGreater(a, b) ==
    IF a = <<>> THEN FALSE
    ELSE IF b = <<>> THEN TRUE
    ELSE IF Ord(a[1]) # Ord(b[1]) THEN Ord(a[1]) > Ord(b[1])
    ELSE StrGreater(Tail(a), Tail(b))

RECURSIVE Number(_)
\* the number a sequence of digits writes
Number(ds) ==
    IF ds = <<>> THEN 0
    ELSE 10 * Number(SubSeq(ds, 1, Len(ds) - 1)) + DigitValue(ds[Len(ds)])

\* the capacity a quantity with the suffix Mi or Gi stands for, in mebibytes
Capacity(q) ==
    LET number == Number(SubSeq(q, 1, Len(q) - 2))
        suffix == SubSeq(q, Len(q) - 1, Len(q))
    IN  IF suffix = <<"G", "i">> THEN 1024 * number ELSE number

(***************************************************************************)
(* FilestorePVC                                                            *)
(***************************************************************************)
\* FilestorePVC.__init__ with no defaults file: default_size, default_storage_class
default_size == <<"2", "G", "i">>
default_storage_class == "standard"
pvc_name_suffix == "filestore-pvc"

\* spec.filestore: the keys it has and their values (a key that is not in keys
\* holds the default as filler)
FsSpecs ==
    {[keys |-> k, size |-> z, storageClass |-> c] :
        k \in SUBSET {"size", "storageClass"}, z \in Sizes, c \in StorageClasses}
WellFormedFs(f) ==
    /\ ("size" \notin f.keys => f.size = default_size)
    /\ ("storageClass" \notin f.keys => f.storageClass = default_storage_class)
EmptyFs == [keys |-> {}, size |-> default_size, storageClass |-> default_storage_class]

_get_pvc_name_no_suffix == InstanceName

\* PVCHandler._get_pvc_name
_get_pvc_name == InstanceName \o "-" \o pvc_name_suffix

\* the claim that is not there: None of _read_resource, absent on the platform
NoPVC ==
    [present |-> FALSE, name |-> "", owner_references |-> <<>>, access_modes |-> <<>>,
     storage_class_name |-> "", storage |-> <<>>]

\* FilestorePVC._get_resource_body
FilestorePVC_get_resource_body(f) ==
    LET size == IF "size" \in f.keys THEN f.size ELSE default_size
        storage_class == IF "storageClass" \in f.keys THEN f.storageClass
                         ELSE default_storage_class
    IN  [present |-> TRUE,
         name |-> _get_pvc_name,
         owner_references |-> << owner_reference >>,
         access_modes |-> << "ReadWriteOnce" >>,
         storage_class_name |-> storage_class,
         storage |-> size]

\* the claims the platform can hold for the instance
Claims ==
    {[FilestorePVC_get_resource_body(EmptyFs) EXCEPT !.storage = z, !.storage_class_name = c] :
        z \in Sizes, c \in StorageClasses}

(***************************************************************************)
(* The platform's answers                                                  *)
(***************************************************************************)
\* statuses a failing platform read answers with; 0 stands for no failure
ReadFaults == {0, 403, 500}

\* read_namespaced_persistent_volume_claim
PlatformRead(p, fault) ==
    IF fault # 0 THEN [status |-> fault, body |-> NoPVC]
    ELSE IF p.present THEN [status |-> 200, body |-> p]
    ELSE [status |-> 404, body |-> NoPVC]

\* create_namespaced_persistent_volume_claim: a name that is taken is a conflict
PlatformCreate(p, body) ==
    IF p.present THEN [pvc |-> p, raised |-> TRUE] ELSE [pvc |-> body, raised |-> FALSE]

\* patch_namespaced_persistent_volume_claim: the platform refuses to shrink a claim
PlatformPatch(p, body) ==
    IF Capacity(body.storage) < Capacity(p.storage)
    THEN [pvc |-> p, raised |-> TRUE]
    ELSE [pvc |-> body, raised |-> FALSE]

(***************************************************************************)
(* PVCHandler                                                              *)
(***************************************************************************)
PVCHandler_read_resource_catch_all(resp) ==
    IF resp.status = 200 THEN [raises |-> 0, value |-> resp.body]
    ELSE [raises |-> 0, value |-> NoPVC]

\* PVCHandler._read_resource: raises is the status of the ApiException that
\* leaves it, 0 when it returns
PVCHandler_read_resource(resp) ==
    IF resp.status = 200 THEN [raises |-> 0, value |-> resp.body]
    ELSE IF resp.status = 404 THEN [raises |-> 0, value |-> NoPVC]
    ELSE [raises |-> resp.status, value |-> NoPVC]

WriteCall(verb, body) == [verb |-> verb, body |-> body]
Result(p, cs, r) == [pvc |-> p, calls |-> cs, raised |-> r]

\* the body of PVCHandler.handle_create
PVCHandler_create_body(p, f) ==
    LET body == FilestorePVC_get_resource_body(f)
        created == PlatformCreate(p, body)
    IN  Result(created.pvc, << WriteCall("create", body) >>, created.raised)

PVCHandler_update_body_desired(p, f) ==
    LET body == FilestorePVC_get_resource_body(f)
        patched == PlatformPatch(p, body)
    IN  IF StrGreater(body.storage, p.storage)
        THEN Result(patched.pvc, << WriteCall("patch", body) >>, patched.raised)
        ELSE Result(p, <<>>, FALSE)

\* the body of PVCHandler.handle_update on the claim p it reads:
\*   if requested_size > current_size: patch the read resource with the new size
PVCHandler_update_body(p, f) ==
    LET requested_size == FilestorePVC_get_resource_body(f).storage
        current_size == p.storage
        resource == [p EXCEPT !.storage = requested_size]
        patched == PlatformPatch(p, resource)
    IN  IF StrGreater(requested_size, current_size)
        THEN Result(patched.pvc, << WriteCall("patch", resource) >>, patched.raised)
        ELSE Result(p, <<>>, FALSE)

\* @update_if_exists on handle_create: a resource that is there is updated
update_if_exists(p, f, fault) ==
    LET read == PVCHandler_read_resource(PlatformRead(p, fault))
    IN  IF read.raises # 0 THEN Result(p, <<>>, TRUE)
        ELSE IF read.value.present THEN PVCHandler_update_body(read.value, f)
        ELSE PVCHandler_create_body(p, f)

\* @create_if_missing on handle_update: a resource that is not there is created
create_if_missing(p, f, fault) ==
    LET read == PVCHandler_read_resource(PlatformRead(p, fault))
    IN  IF read.raises # 0 THEN Result(p, <<>>, TRUE)
        ELSE IF ~read.value.present THEN PVCHandler_create_body(p, f)
        ELSE PVCHandler_update_body(read.value, f)

PVCHandler_handle_create(p, f, fault) == update_if_exists(p, f, fault)
PVCHandler_handle_update(p, f, fault) == create_if_missing(p, f, fault)

\* the record of a PVCHandler call
NoResp == [status |-> 0, body |-> NoPVC]
NoRet == [raises |-> 0, value |-> NoPVC]

Called(r) ==
    /\ p_before' = pvc
    /\ pvc' = r.pvc
    /\ p_calls' = r.calls
    /\ p_raised' = r.raised
    /\ p_resp' = NoResp
    /\ p_ret' = NoRet
    /\ UNCHANGED << fs_spec, pipeline_vars, aux_vars >>

\* FilestorePVC.handle_create, as on_create calls it
pvc_handle_create ==
    \E fault \in ReadFaults :
        /\ p_op' = "handle_create"
        /\ Called(PVCHandler_handle_create(pvc, fs_spec, fault))

\* FilestorePVC.handle_update, as on_update calls it
pvc_handle_update ==
    \E fault \in ReadFaults :
        /\ p_op' = "handle_update"
        /\ Called(PVCHandler_handle_update(pvc, fs_spec, fault))

ResourceHandler_handle_delete_strict(p) ==
    IF p.present
    THEN Result(NoPVC, << WriteCall("delete", p) >>, FALSE)
    ELSE Result(p, << WriteCall("delete", p) >>, TRUE)

\* ResourceHandler.handle_delete: the resource is deleted; a resource that is
\* not there is a success
ResourceHandler_handle_delete(p) ==
    Result(NoPVC, IF p.present THEN << WriteCall("delete", p) >> ELSE <<>>, FALSE)

\* FilestorePVC.handle_delete, as on_delete calls it
pvc_handle_delete ==
    /\ p_op' = "handle_delete"
    /\ Called(ResourceHandler_handle_delete(pvc))

\* PVCHandler._read_resource called by itself
pvc_read_resource ==
    \E fault \in ReadFaults :
        /\ p_op' = "_read_resource"
        /\ p_before' = pvc
        /\ p_calls' = <<>>
        /\ p_raised' = (PVCHandler_read_resource(PlatformRead(pvc, fault)).raises # 0)
        /\ p_resp' = PlatformRead(pvc, fault)
        /\ p_ret' = PVCHandler_read_resource(PlatformRead(pvc, fault))
        /\ UNCHANGED << pvc, fs_spec, pipeline_vars, aux_vars >>

\* no PVCHandler call is on record
NoCall ==
    /\ p_op = "none"
    /\ p_before = NoPVC
    /\ p_calls = <<>>
    /\ p_raised = FALSE
    /\ p_resp = NoResp
    /\ p_ret = NoRet

\* the user writes another spec.filestore into the instance
EditFilestore ==
    /\ \E f \in {g \in FsSpecs : WellFormedFs(g)} \ {fs_spec} : fs_spec' = f
    /\ p_op' = "none"
    /\ p_before' = NoPVC
    /\ p_calls' = <<>>
    /\ p_raised' = FALSE
    /\ p_resp' = NoResp
    /\ p_ret' = NoRet
    /\ UNCHANGED << pvc, pipeline_vars, aux_vars >>

\* the pipeline before its first event: the state the filestore claim handler is
\* looked at in
PipelineIdle ==
    /\ spec = NoUpgradeKey
    /\ exists = [h \in HandlerNames |-> FALSE]
    /\ jobs = <<>>
    /\ status_upgradeJob = 0
    /\ sync_running = FALSE
    /\ environ = {}
    /\ pc = "idle"
    /\ event = "none"
    /\ h_spec = NoUpgradeKey
    /\ i = 1
    /\ calls = <<>>
    /\ raised = "none"
    /\ classified = "none"
    /\ outcome = "none"

\* the filestore claim handler before its first call
PvcIdle ==
    /\ fs_spec = EmptyFs
    /\ pvc = NoPVC
    /\ NoCall

\* the claim is absent or was made by an earlier reconciliation
PvcInit ==
    /\ PipelineIdle
    /\ fs_spec \in {g \in FsSpecs : WellFormedFs(g)}
    /\ pvc \in {NoPVC} \cup Claims
    /\ NoCall
    /\ AuxIdle

PvcNext ==
    \/ pvc_handle_create
    \/ pvc_handle_update
    \/ pvc_handle_delete
    \/ pvc_read_resource
    \/ EditFilestore

PvcSpec == PvcInit /\ [][PvcNext]_vars

\* handle_create and handle_update with the platform answering the read
pvc_handle_create_answered ==
    /\ p_op' = "handle_create"
    /\ Called(PVCHandler_handle_create(pvc, fs_spec, 0))

pvc_handle_update_answered ==
    /\ p_op' = "handle_update"
    /\ Called(PVCHandler_handle_update(pvc, fs_spec, 0))

\* the event delivery runtime redelivers the event: the handler is called again
\* and again, and the platform answers
PvcFairSpec ==
    /\ PvcSpec
    /\ WF_vars(pvc_handle_create_answered)
    /\ WF_vars(pvc_handle_update_answered)

(***************************************************************************)
(* Initial state: the operator process starts against an instance whose    *)
(* pipeline is not reconciled yet; the platform may hold the upgrade job   *)
(* of the request in the spec, followed through status["upgradeJob"].      *)
(***************************************************************************)
Init ==
    /\ spec \in Specs
    /\ exists = [h \in HandlerNames |-> FALSE]
    /\ jobs \in IF _is_upgrade_request(spec)
                THEN {<<>>, << UpgradeJob_get_resource_body(spec) >>}
                ELSE {<<>>}
    /\ status_upgradeJob = Len(jobs)
    /\ sync_running \in BOOLEAN
    /\ environ \in {{}, {"DB_HOST", "DB_PORT"}}
    /\ pc = "idle"
    /\ event = "none"
    /\ h_spec = NoUpgradeKey
    /\ i = 1
    /\ calls = <<>>
    /\ raised = "none"
    /\ classified = "none"
    /\ outcome = "none"
    /\ PvcIdle
    /\ AuxIdle

\* OdooHandler(body, **kwargs) of an event function: a fresh handler object
\* holding the spec of the event's body
NewHandler(ev) ==
    /\ pc = "idle"
    /\ event' = ev
    /\ h_spec' = spec
    /\ i' = 1
    /\ calls' = <<>>
    /\ raised' = "none"
    /\ outcome' = "none"

\* the event function returns (or raises) to kopf
Finish(result) ==
    /\ pc' = "done"
    /\ outcome' = result

(***************************************************************************)
(* Created                                                                 *)
(***************************************************************************)
create_fn ==
    /\ NewHandler("Created")
    /\ pc' = "on_create"
    /\ classified' = "none"
    /\ UNCHANGED << spec, platform, sync_running, environ, pvc_vars, aux_vars >>

\* one round of the loop of on_create, which swallows a handler's error
on_create_swallow ==
    /\ pc = "on_create"
    /\ LET h == handlers[i] IN
       /\ calls' = Append(calls, Call(h, "handle_create"))
       /\ \E fails \in BOOLEAN :
            IF fails
            THEN /\ raised' = h
                 /\ exists' = exists
            ELSE /\ raised' = raised
                 /\ exists' = HandlerEffect("handle_create", h, exists)
       /\ IF i = N
          THEN /\ Finish("ok")
               /\ i' = i
          ELSE /\ i' = i + 1
               /\ UNCHANGED << pc, outcome >>
    /\ UNCHANGED << spec, jobs, status_upgradeJob, sync_running, environ, pvc_vars, aux_vars, event, h_spec, classified >>

\* one round of the loop of on_create: handler.handle_create()
on_create ==
    /\ pc = "on_create"
    /\ LET h == handlers[i] IN
       /\ calls' = Append(calls, Call(h, "handle_create"))
       /\ \E fails \in BOOLEAN :
            IF fails
            THEN /\ raised' = h
                 /\ Finish("error")
                 /\ UNCHANGED << exists, i >>
            ELSE /\ exists' = HandlerEffect("handle_create", h, exists)
                 /\ raised' = raised
                 /\ IF i = N
                    THEN /\ Finish("ok")
                         /\ i' = i
                    ELSE /\ i' = i + 1
                         /\ UNCHANGED << pc, outcome >>
    /\ UNCHANGED << spec, jobs, status_upgradeJob, sync_running, environ, pvc_vars, aux_vars, event, h_spec, classified >>

(***************************************************************************)
(* Updated                                                                 *)
(***************************************************************************)
on_update_branch_always_pipeline(is_upgrade) == "on_update"

\* the branch on_update takes: self._handle_upgrade() or the loop
on_update_branch(is_upgrade) ==
    IF is_upgrade THEN "_handle_upgrade" ELSE "on_update"

\* update_fn builds the handler and on_update tests self._is_upgrade_request()
update_fn ==
    /\ NewHandler("Updated")
    /\ classified' = IF _is_upgrade_request(h_spec') THEN "UpgradeRequested" ELSE "RegularUpdate"
    /\ pc' = on_update_branch(_is_upgrade_request(h_spec'))
    /\ UNCHANGED << spec, platform, sync_running, environ, pvc_vars, aux_vars >>

update_order_reversed == Reverse(handlers)

\* the order of the loop of on_update: self.handlers
update_order == handlers

\* one round of the loop of on_update: handler.handle_update()
on_update ==
    /\ pc = "on_update"
    /\ LET h == update_order[i] IN
       /\ calls' = Append(calls, Call(h, "handle_update"))
       /\ \E fails \in BOOLEAN :
            IF fails
            THEN /\ raised' = h
                 /\ Finish("error")
                 /\ UNCHANGED << exists, i >>
            ELSE /\ exists' = HandlerEffect("handle_update", h, exists)
                 /\ raised' = raised
                 /\ IF i = N
                    THEN /\ Finish("ok")
                         /\ i' = i
                    ELSE /\ i' = i + 1
                         /\ UNCHANGED << pc, outcome >>
    /\ UNCHANGED << spec, jobs, status_upgradeJob, sync_running, environ, pvc_vars, aux_vars, event, h_spec, classified >>

\* _handle_upgrade creating the job itself before it asks the upgrade handler
_handle_upgrade_creates_first ==
    /\ pc = "_handle_upgrade"
    /\ Len(jobs) < 3
    /\ calls' = Append(calls, Call("upgrade_job", "handle_update"))
    /\ jobs' = Append(jobs, UpgradeJob_get_resource_body(h_spec))
    /\ status_upgradeJob' = Len(jobs')
    /\ raised' = "upgrade_job"
    /\ Finish("error")
    /\ UNCHANGED << spec, exists, sync_running, environ, pvc_vars, aux_vars, event, h_spec, i, classified >>

\* _handle_upgrade: self.upgrade_job.handle_update()
_handle_upgrade ==
    /\ pc = "_handle_upgrade"
    /\ calls' = Append(calls, Call("upgrade_job", "handle_update"))
    /\ IF UpgradeJob_handle_update_raises(jobs)
       THEN /\ raised' = "upgrade_job"
            /\ Finish("error")
            /\ UNCHANGED << jobs, status_upgradeJob >>
       ELSE /\ jobs' = UpgradeJob_handle_update(h_spec, jobs)
            /\ status_upgradeJob' = IF jobs' = jobs THEN status_upgradeJob ELSE Len(jobs')
            /\ raised' = raised
            /\ Finish("ok")
    /\ UNCHANGED << spec, exists, sync_running, environ, pvc_vars, aux_vars, event, h_spec, i, classified >>

(***************************************************************************)
(* Deleted                                                                 *)
(***************************************************************************)
delete_fn ==
    /\ NewHandler("Deleted")
    /\ pc' = "on_delete"
    /\ classified' = "none"
    /\ UNCHANGED << spec, platform, sync_running, environ, pvc_vars, aux_vars >>

\* one round of the loop of on_delete: handler.handle_delete()
on_delete ==
    /\ pc = "on_delete"
    /\ LET h == delete_order[i] IN
       /\ calls' = Append(calls, Call(h, "handle_delete"))
       /\ \E fails \in BOOLEAN :
            IF fails
            THEN /\ raised' = h
                 /\ Finish("error")
                 /\ UNCHANGED << exists, i >>
            ELSE /\ exists' = HandlerEffect("handle_delete", h, exists)
                 /\ raised' = raised
                 /\ IF i = N
                    THEN /\ Finish("ok")
                         /\ i' = i
                    ELSE /\ i' = i + 1
                         /\ UNCHANGED << pc, outcome >>
    /\ UNCHANGED << spec, jobs, status_upgradeJob, sync_running, environ, pvc_vars, aux_vars, event, h_spec, classified >>

(***************************************************************************)
(* The completion check of the upgrade job                                 *)
(***************************************************************************)
completion_patch_empty == [upgrade |-> "absent"]

\* UpgradeJob.__init__: completion_patch={"spec": {"upgrade": None}}; a key the
\* patch does not name is "absent" in it
completion_patch == [upgrade |-> "null"]

\* the spec after the platform applied a merge patch: a null removes the key
MergePatch(s, patch) ==
    IF patch.upgrade = "null" THEN NoUpgradeKey ELSE s

\* the completion state of the job status["upgradeJob"] names
TrackedStatus ==
    IF status_upgradeJob = 0 THEN "none" ELSE jobs[status_upgradeJob].status

\* JobHandler.handle_completion: the spec it leaves, having observed the job
\* in state st; only a succeeded job has the completion patch applied
JobHandler_handle_completion(st, s) ==
    IF st = "succeeded" THEN MergePatch(s, completion_patch) ELSE s

\* JobHandler.handle_completion: status["upgradeJob"] it leaves
JobHandler_completion_status(st, ref) ==
    IF st = "succeeded" THEN 0 ELSE ref

\* the operator's timer builds a handler for the instance
timer_fn ==
    /\ NewHandler("Timer")
    /\ pc' = "handle_upgrade_job_check"
    /\ classified' = "none"
    /\ UNCHANGED << spec, platform, sync_running, environ, pvc_vars, aux_vars >>

handle_upgrade_job_check_no_except ==
    /\ pc = "handle_upgrade_job_check"
    /\ calls' = Append(calls, Call("upgrade_job", "handle_completion"))
    /\ \E fails \in BOOLEAN :
        IF fails
        THEN /\ raised' = "upgrade_job"
             /\ Finish("error")
             /\ UNCHANGED << spec, status_upgradeJob >>
        ELSE /\ raised' = raised
             /\ Finish("ok")
             /\ spec' = JobHandler_handle_completion(TrackedStatus, spec)
             /\ status_upgradeJob' = JobHandler_completion_status(TrackedStatus, status_upgradeJob)
    /\ UNCHANGED << exists, jobs, sync_running, environ, pvc_vars, aux_vars, event, h_spec, i, classified >>

\* handle_upgrade_job_check: self.upgrade_job.handle_completion() inside
\* try / except Exception, which logs the error
handle_upgrade_job_check ==
    /\ pc = "handle_upgrade_job_check"
    /\ calls' = Append(calls, Call("upgrade_job", "handle_completion"))
    /\ \E fails \in BOOLEAN :
        IF fails
        THEN /\ raised' = "upgrade_job"
             /\ UNCHANGED << spec, status_upgradeJob >>
        ELSE /\ raised' = raised
             /\ spec' = JobHandler_handle_completion(TrackedStatus, spec)
             /\ status_upgradeJob' = JobHandler_completion_status(TrackedStatus, status_upgradeJob)
    /\ Finish("ok")
    /\ UNCHANGED << exists, jobs, sync_running, environ, pvc_vars, aux_vars, event, h_spec, i, classified >>

(***************************************************************************)
(* The platform runs the upgrade job                                       *)
(***************************************************************************)
SetJobStatus(k, st) == jobs' = [jobs EXCEPT ![k].status = st]

\* Pending -> Running: the platform scheduler starts the job's pod
JobRun ==
    /\ \E k \in 1..Len(jobs) : jobs[k].status = "pending" /\ SetJobStatus(k, "running")
    /\ UNCHANGED << spec, exists, status_upgradeJob, sync_running, environ, pvc_vars, aux_vars, pc, event,
                    h_spec, i, calls, raised, classified, outcome >>

\* Running -> Succeeded: a pod of the job completed
JobSucceed ==
    /\ \E k \in 1..Len(jobs) : jobs[k].status = "running" /\ SetJobStatus(k, "succeeded")
    /\ UNCHANGED << spec, exists, status_upgradeJob, sync_running, environ, pvc_vars, aux_vars, pc, event,
                    h_spec, i, calls, raised, classified, outcome >>

\* Running -> Failed: the pods of the job failed backoff_limit + 1 times
JobFail ==
    /\ \E k \in 1..Len(jobs) : jobs[k].status = "running" /\ SetJobStatus(k, "failed")
    /\ UNCHANGED << spec, exists, status_upgradeJob, sync_running, environ, pvc_vars, aux_vars, pc, event,
                    h_spec, i, calls, raised, classified, outcome >>

(***************************************************************************)
(* Around the event functions                                              *)
(***************************************************************************)
\* kopf has the result of the event function; the handler object is dropped
Return ==
    /\ pc = "done"
    /\ pc' = "idle"
    /\ event' = "none"
    /\ h_spec' = NoUpgradeKey
    /\ i' = 1
    /\ calls' = <<>>
    /\ raised' = "none"
    /\ classified' = "none"
    /\ outcome' = "none"
    /\ UNCHANGED << spec, platform, sync_running, environ, pvc_vars, aux_vars >>

\* the user writes another spec.upgrade into the instance
EditSpec ==
    /\ pc = "idle"
    /\ \E s \in Specs \ {spec} : spec' = s
    /\ UNCHANGED << platform, sync_running, environ, pvc_vars, aux_vars, pc, event, h_spec, i, calls,
                    raised, classified, outcome >>

\* the repository-sync job starts
GitSyncStart ==
    /\ ~sync_running
    /\ sync_running' = TRUE
    /\ UNCHANGED << spec, platform, environ, pvc_vars, aux_vars, pc, event, h_spec, i, calls, raised,
                    classified, outcome >>

\* the repository-sync job ends
GitSyncStop ==
    /\ sync_running
    /\ sync_running' = FALSE
    /\ UNCHANGED << spec, platform, environ, pvc_vars, aux_vars, pc, event, h_spec, i, calls, raised,
                    classified, outcome >>

Next ==
    \/ create_fn
    \/ on_create
    \/ update_fn
    \/ on_update
    \/ _handle_upgrade
    \/ delete_fn
    \/ on_delete
    \/ timer_fn
    \/ handle_upgrade_job_check
    \/ JobRun
    \/ JobSucceed
    \/ JobFail
    \/ Return
    \/ EditSpec
    \/ GitSyncStart
    \/ GitSyncStop

Spec == Init /\ [][Next]_vars

TypeOK ==
    /\ spec \in Specs
    /\ h_spec \in Specs
    /\ exists \in [HandlerNames -> BOOLEAN]
    /\ sync_running \in BOOLEAN
    /\ pc \in {"idle", "on_create", "on_update", "_handle_upgrade", "on_delete",
             "handle_upgrade_job_check", "done"}
    /\ status_upgradeJob \in 0..Len(jobs)
    /\ \A k \in 1..Len(jobs) : jobs[k].status \in {"pending", "running", "succeeded", "failed"}
    /\ event \in {"none", "Created", "Updated", "Deleted", "Timer"}
    /\ i \in 1..N
    /\ raised \in HandlerNames \cup {"none", "upgrade_job"}
    /\ classified \in {"none", "UpgradeRequested", "RegularUpdate"}
    /\ outcome \in {"none", "ok", "error"}

\* the event delivery runtime keeps delivering Updated events and lets every
\* started event function run to its end
FairSpec ==
    /\ Spec
    /\ SF_vars(update_fn)
    /\ WF_vars(on_create)
    /\ WF_vars(on_update)
    /\ WF_vars(_handle_upgrade)
    /\ WF_vars(on_delete)
    /\ WF_vars(handle_upgrade_job_check)
    /\ WF_vars(Return)

(***************************************************************************)
(* The cluster registry on its own                                         *)
(***************************************************************************)
\* the operator starts with whatever file the secret mount holds
ClusterInit ==
    /\ PipelineIdle
    /\ PvcIdle
    /\ clusters_file \in {f \in Files : f.mtime = 0}
    /\ _clusters_cache = NoCache
    /\ _clusters_mtime = 0
    /\ cache_filled_by = "none"
    /\ g_caller = "none"
    /\ g_name = NoName
    /\ g_ret = Returns(NoCluster)
    /\ g_hit = FALSE
    /\ SecretIdle
    /\ DelegationIdle

ClusterNext ==
    \/ call_get_cluster
    \/ WriteClustersFile

ClusterSpec == ClusterInit /\ [][ClusterNext]_vars

(***************************************************************************)
(* The git secret and ingress route handlers on their own                  *)
(***************************************************************************)
\* the namespaces hold what earlier reconciliations and the administrator left
SecretInit ==
    /\ PipelineIdle
    /\ PvcIdle
    /\ ClusterIdle
    /\ ssh_secret \in SecretNames
    /\ orig_secret \in {NoSecret} \cup {[present |-> TRUE, name |-> "git-key",
                                         owner_references |-> <<>>, data |-> d] : d \in SecretData}
    /\ secret \in {NoSecret}
                  \cup {GitSecret_get_resource_body(
                            "git-key",
                            [status |-> 200, body |-> [NoSecret EXCEPT !.data = d]]).value :
                        d \in SecretData}
    /\ route \in {NoRoute, IngressRoute_build_ingress_route_spec}
    /\ s_op = "none"
    /\ s_resp = NoAnswer
    /\ s_ret = NoValue
    /\ s_body = NoBody
    /\ DelegationIdle

SecretNext ==
    \/ git_secret_read_resource
    \/ ingress_route_read_resource
    \/ git_secret_get_resource_body
    \/ EditSshSecret
    \/ ChangeOrigSecret
    \/ RemoveResource

SecretSpec == SecretInit /\ [][SecretNext]_vars

(***************************************************************************)
(* One handler call on its own                                             *)
(***************************************************************************)
DelegationInit ==
    /\ PipelineIdle
    /\ PvcIdle
    /\ ClusterIdle
    /\ SecretIdle
    /\ d_pc \in {"handle_create", "handle_update"}
    /\ d_resource = FALSE
    /\ d_platform \in BOOLEAN
    /\ d_depth = 0
    /\ d_flaps = 0

DelegationNext ==
    \/ d_handle_create
    \/ d_handle_update
    \/ d_create_body
    \/ d_update_body
    \/ Flap
    \/ d_call

DelegationSpec == DelegationInit /\ [][DelegationNext]_vars

(***************************************************************************)
(* Properties                                                              *)
(***************************************************************************)
\* in the calls of the event so far, a call on handler b comes only after a
\* call on handler a
CalledBefore(a, b) ==
    \A k \in 1..Len(calls) : calls[k].h = b => \E j \in 1..(k - 1) : calls[j].h = a

NoHandlerTwice ==
    \A j, k \in 1..Len(calls) : calls[j].h = calls[k].h => j = k

\* C1: in a Created event handle_create is called on the handlers in one fixed
\* order in which the filestore claim and the config come before the
\* deployment, the certificate before every ingress route, and the deployment
\* and the service before every ingress route.
C1_CreateInDependencyOrder ==
    event = "Created" =>
        /\ \A k \in 1..Len(calls) : calls[k].op = "handle_create"
        /\ NoHandlerTwice
        /\ CalledBefore("filestore_pvc", "deployment")
        /\ CalledBefore("odoo_conf", "deployment")
        /\ \A r \in IngressRoutes :
            /\ CalledBefore("tls_cert", r)
            /\ CalledBefore("deployment", r)
            /\ CalledBefore("service", r)

C1_Witness ==
    /\ event = "Created"
    /\ pc = "done"
    /\ outcome = "ok"
    /\ \A h \in HandlerNames : \E k \in 1..Len(calls) : calls[k].h = h

\* C2: in a Deleted event handle_delete is called on the handlers of the create
\* order taken from its end: the k-th delete call is on the handler created
\* k-th from last, and an event that ends without error has called all of them.
C2_DeleteInReverseOrder ==
    event = "Deleted" =>
        /\ Len(calls) <= N
        /\ \A k \in 1..Len(calls) : calls[k] = Call(handlers[N + 1 - k], "handle_delete")
        /\ (pc = "done" /\ outcome = "ok" => Len(calls) = N)

C2_Witness ==
    /\ event = "Deleted"
    /\ pc = "done"
    /\ outcome = "ok"
    /\ calls[1].h = "ingress_route_websocket"
    /\ calls[N].h = "pull_secret"

\* C3: when handle_create of a handler raises in a Created event, that call is
\* the last call of the event, the event ends in error, no delete is issued and
\* the resources of the handlers called before it are on the platform.
C3_CreateAbortsOnFirstFailure ==
    (event = "Created" /\ raised # "none") =>
        /\ pc = "done"
        /\ outcome = "error"
        /\ calls[Len(calls)] = Call(raised, "handle_create")
        /\ \A k \in 1..Len(calls) : calls[k].op = "handle_create"
        /\ \A k \in 1..(Len(calls) - 1) : exists[calls[k].h]

C3_Witness ==
    /\ event = "Created"
    /\ raised = "deployment"
    /\ Len(calls) = 6
    /\ exists["filestore_pvc"]
    /\ ~exists["deployment"]

\* C4: a Deleted event does not fail and calls handle_delete on every handler,
\* also when a handle_delete raised.
C4_DeleteSwallowsErrors ==
    (event = "Deleted" /\ pc = "done") =>
        /\ outcome = "ok"
        /\ Len(calls) = N

\* the upgrade key of the spec holds a non-empty database and a non-empty list
\* of modules
ValidRequest(s) ==
    /\ s.present
    /\ "database" \in s.upgrade.keys
    /\ s.upgrade.database # ""
    /\ "modules" \in s.upgrade.keys
    /\ s.upgrade.modules.kind = "list"
    /\ s.upgrade.modules.items # <<>>

\* C5: an Updated event is classified UpgradeRequested exactly when its spec
\* has an upgrade with a non-empty database and a non-empty modules list, and
\* RegularUpdate otherwise.
C5_ClassifiedIffValidRequest ==
    event = "Updated" =>
        /\ classified \in {"UpgradeRequested", "RegularUpdate"}
        /\ (classified = "UpgradeRequested" <=> ValidRequest(h_spec))

\* {database: "prod", modules: []} is a regular update
C5_Witness ==
    /\ event = "Updated"
    /\ classified = "RegularUpdate"
    /\ h_spec.present
    /\ h_spec.upgrade.keys = {"database", "modules"}
    /\ h_spec.upgrade.database = "prod"
    /\ h_spec.upgrade.modules = ListValue(<<>>)

\* C6: in an event classified UpgradeRequested the only call is one
\* handle_update on the upgrade-job handler, and no step of the event changes
\* a resource of the regular pipeline.
C6_UpgradeOnlyUpgradeJob ==
    /\ [](classified = "UpgradeRequested" =>
            /\ Len(calls) <= 1
            /\ \A k \in 1..Len(calls) : calls[k] = Call("upgrade_job", "handle_update"))
    /\ [][classified = "UpgradeRequested" => exists' = exists]_vars

C6_Witness ==
    /\ classified = "UpgradeRequested"
    /\ pc = "done"
    /\ calls = << Call("upgrade_job", "handle_update") >>

\* C7: in an event classified RegularUpdate the k-th call is handle_update on
\* the k-th handler of the create order, an event that ends without error has
\* called all of them, and the upgrade-job handler is not called.
C7_RegularUpdateInCreateOrder ==
    classified = "RegularUpdate" =>
        /\ Len(calls) <= N
        /\ \A k \in 1..Len(calls) : calls[k] = Call(handlers[k], "handle_update")
        /\ (pc = "done" /\ outcome = "ok" => Len(calls) = N)

C7_Witness ==
    /\ classified = "RegularUpdate"
    /\ pc = "done"
    /\ outcome = "ok"
    /\ Len(calls) = N

\* C8: with the repository-sync job running, the upgrade handler's
\* handle_update returns without an error and leaves the upgrade jobs as they
\* were.
C8_GateHeldReturnsQuietly ==
    [][(pc = "_handle_upgrade" /\ sync_running /\ pc' = "done") =>
            (outcome' = "ok" /\ jobs' = jobs)]_vars

\* some upgrade job on the platform runs the upgrade the spec s asks for
HasJobFor(s) ==
    \E k \in 1..Len(jobs) :
        /\ jobs[k].database = UpgradeJob_database(s)
        /\ jobs[k].modules_str = Join(UpgradeJob_modules(s).items)

\* C9: an Updated event classified UpgradeRequested that meets the
\* repository-sync job not running ends without error with an upgrade job for
\* its request on the platform.
C9_GateClearCreatesJob ==
    [][(pc = "_handle_upgrade" /\ ~sync_running /\ pc' = "done") =>
            (outcome' = "ok" /\ HasJobFor(h_spec)')]_vars

\* C10: a valid upgrade request met by a running repository-sync job gets its
\* upgrade job once the sync job has stopped for good and the request is still
\* in the spec.
C10_GatedUpgradeEventuallyCreated ==
    []((ValidRequest(spec) /\ sync_running) =>
        (<>[](ValidRequest(spec) /\ ~sync_running) => <>(HasJobFor(spec))))

\* a step in which the completion check, not raising, observes the followed job
\* in state st
CheckObserves(st) ==
    /\ pc = "handle_upgrade_job_check"
    /\ pc' = "done"
    /\ raised' = "none"
    /\ TrackedStatus = st

\* C11: a completion check that observes the upgrade job succeeded leaves the
\* instance spec without the upgrade key, and an Updated event that meets a spec
\* without the upgrade key is a regular update that calls no upgrade handler
\* and creates no job.
C11_SucceededClearsUpgrade ==
    /\ [][CheckObserves("succeeded") => (~spec'.present /\ ~ValidRequest(spec'))]_vars
    /\ []((event = "Updated" /\ ~h_spec.present) =>
            /\ classified = "RegularUpdate"
            /\ \A k \in 1..Len(calls) : calls[k].h # "upgrade_job")
    /\ [][(event = "Updated" /\ ~h_spec.present) => Len(jobs') = Len(jobs)]_vars

\* the check has cleared a valid request whose job succeeded
C11_Witness ==
    /\ event = "Timer"
    /\ pc = "done"
    /\ raised = "none"
    /\ ValidRequest(h_spec)
    /\ ~spec.present
    /\ jobs # <<>>
    /\ jobs[1].status = "succeeded"
    /\ status_upgradeJob = 0

\* C12: a completion check that observes the upgrade job failed changes neither
\* the instance spec nor any job; while the followed job is failed no step adds
\* a job; every upgrade job carries the retry budget backoff_limit 2.
C12_FailedLeftAlone ==
    /\ [][CheckObserves("failed") =>
            (spec' = spec /\ jobs' = jobs /\ status_upgradeJob' = status_upgradeJob)]_vars
    /\ [][TrackedStatus = "failed" => Len(jobs') = Len(jobs)]_vars
    /\ [](\A k \in 1..Len(jobs) : jobs[k].backoff_limit = 2)

\* the check has observed a failed job and the request is still in the spec
C12_Witness ==
    /\ event = "Timer"
    /\ pc = "done"
    /\ raised = "none"
    /\ TrackedStatus = "failed"
    /\ ValidRequest(spec)

ActiveJobs == {k \in 1..Len(jobs) : jobs[k].status \in {"pending", "running"}}

Max(a, b) == IF a >= b THEN a ELSE b

\* the read the last handler call began with failed: nothing else was done
ReadFaulted == p_raised /\ p_calls = <<>>

\* the last call was handle_update on a claim it could read
UpdatedPresent == p_op = "handle_update" /\ p_before.present /\ ~ReadFaulted

requested_size == FilestorePVC_get_resource_body(fs_spec).storage

\* C14: after handle_update on an observed claim of size S0 with requested size
\* S1, the stored size has the capacity max(S0, S1), and when S1 is the larger
\* capacity exactly one patch was issued, its storage request being S1.
C14_MonotonicResize ==
    UpdatedPresent =>
        /\ Capacity(pvc.storage) = Max(Capacity(p_before.storage), Capacity(requested_size))
        /\ Capacity(requested_size) > Capacity(p_before.storage) =>
               /\ Len(p_calls) = 1
               /\ p_calls[1].verb = "patch"
               /\ p_calls[1].body.storage = requested_size

\* C15: no write of handle_create or handle_update to a claim carries a size of
\* smaller capacity than the claim held before the write.
C15_NeverWritesSmaller ==
    (p_op \in {"handle_create", "handle_update"} /\ p_before.present) =>
        \A k \in 1..Len(p_calls) :
            Capacity(p_calls[k].body.storage) >= Capacity(p_before.storage)

\* C16: when the requested size is at most the observed size by capacity,
\* handle_update issues no platform call and raises no error.
C16_NoPatchWhenNotLarger ==
    (UpdatedPresent /\ Capacity(requested_size) <= Capacity(p_before.storage)) =>
        /\ p_calls = <<>>
        /\ ~p_raised

\* C17: the body of every patch the handler issues is the observed claim with
\* another storage request: name, access modes, storage class and owner
\* references are the observed ones.
C17_PatchOnlyStorage ==
    \A k \in 1..Len(p_calls) :
        p_calls[k].verb = "patch" =>
            [p_calls[k].body EXCEPT !.storage = p_before.storage] = p_before

\* the 2Gi claim was patched to the requested 5Gi while the spec asks for
\* another storage class than the claim has
C17_Witness ==
    /\ p_op = "handle_update"
    /\ p_before.storage = <<"2", "G", "i">>
    /\ requested_size = <<"5", "G", "i">>
    /\ Len(p_calls) = 1
    /\ p_calls[1].verb = "patch"
    /\ ~p_raised
    /\ pvc.storage = <<"5", "G", "i">>
    /\ FilestorePVC_get_resource_body(fs_spec).storage_class_name # p_before.storage_class_name
    /\ pvc.storage_class_name = p_before.storage_class_name

\* C18: handle_create on an absent claim issues exactly one create, with the
\* name <instance name>-<suffix> and the desired size; on a present claim it
\* issues no create and does what the update does; handle_update on an absent
\* claim issues that create and no patch.
C18_CreateUpdateDelegation ==
    (p_op \in {"handle_create", "handle_update"} /\ ~ReadFaulted) =>
        IF p_before.present
        THEN /\ \A k \in 1..Len(p_calls) : p_calls[k].verb # "create"
             /\ Result(pvc, p_calls, p_raised) = PVCHandler_update_body(p_before, fs_spec)
        ELSE /\ Len(p_calls) = 1
             /\ p_calls[1].verb = "create"
             /\ p_calls[1].body.name = "demo-filestore-pvc"
             /\ p_calls[1].body.storage = requested_size
             /\ pvc = p_calls[1].body

\* handle_update found no claim and created the 10Gi one the spec asks for
C18_Witness ==
    /\ p_op = "handle_update"
    /\ ~p_before.present
    /\ Len(p_calls) = 1
    /\ p_calls[1].verb = "create"
    /\ pvc.present
    /\ pvc.name = "demo-filestore-pvc"
    /\ pvc.storage = <<"1", "0", "G", "i">>

\* C19: after a handle_create whose read was answered, a second handle_create
\* with the spec unchanged and its read answered leaves the platform as the
\* first call left it and raises no error.
C19_CreateIdempotent ==
    (p_op = "handle_create" /\ ~ReadFaulted) =>
        LET second == PVCHandler_handle_create(pvc, fs_spec, 0)
        IN  /\ second.pvc = pvc
            /\ ~second.raised

\* C20: _read_resource returns None without an error on the answer 404, raises
\* the platform's error on every other failing answer, and returns the claim
\* that was read otherwise.
C20_ReadNotFoundIsAbsent ==
    p_op = "_read_resource" =>
        /\ p_resp.status = 404 => p_ret = [raises |-> 0, value |-> NoPVC]
        /\ p_resp.status \notin {200, 404} => p_ret.raises = p_resp.status
        /\ p_resp.status = 200 => p_ret = [raises |-> 0, value |-> p_resp.body]

\* the platform answered 404 and the read returned None
C20_Witness ==
    /\ p_op = "_read_resource"
    /\ ~pvc.present
    /\ p_resp.status = 404
    /\ p_ret.raises = 0
    /\ p_ret.value = NoPVC
    /\ ~p_raised

\* C21: handle_delete of a claim that is not there raises no error and leaves
\* the platform as it was, and a second handle_delete after any handle_delete
\* raises no error and leaves what the first one left.
C21_DeleteAbsentIsSuccess ==
    p_op = "handle_delete" =>
        /\ ~p_before.present => (~p_raised /\ pvc = p_before)
        /\ LET second == ResourceHandler_handle_delete(pvc)
           IN  /\ ~second.raised
               /\ second.pvc = pvc

\* handle_delete was called on the claim that a handle_delete before it had
\* removed
C21_Witness ==
    /\ p_op = "handle_delete"
    /\ ~p_before.present
    /\ ~pvc.present
    /\ ~p_raised

(***************************************************************************)
(* Properties of the cluster registry (ClusterSpec)                        *)
(***************************************************************************)
\* the registry the file holds
Registry == IF clusters_file.kind = "yaml" THEN clusters_file.data ELSE <<>>

C25_InstancesShareNoState ==
    (g_caller # "none" /\ g_hit) => cache_filled_by = g_caller

(***************************************************************************)
(* Properties of the git secret and ingress route handlers (SecretSpec)    *)
(***************************************************************************)
\* C24: two evaluations of a handler's desired body on the same spec yield the
\* same body, whatever the platform holds at the time of each: here two
\* consecutive evaluations of GitSecret._get_resource_body.
C24_DesiredBodyIsPure ==
    (/\ s_op = "GitSecret._get_resource_body"
     /\ s_body.evaluated
     /\ s_body.ssh = ssh_secret) =>
        /\ s_body.raises = s_ret.raises
        /\ s_body.body = s_ret.value

\* C27: when the platform answers not-found, _read_resource of the git secret
\* handler and of the ingress route handler returns the absent marker and
\* raises no error.
C27_ReadAbsentIsNoError ==
    (/\ s_op \in {"GitSecret._read_resource", "IngressRoute._read_resource"}
     /\ s_resp.status = 404) =>
        /\ s_ret.raises = 0
        /\ ~s_ret.value.present

(***************************************************************************)
(* Owner references                                                        *)
(***************************************************************************)
\* refs is one owner reference, to the instance being reconciled
OwnedByInstance(refs) ==
    /\ Len(refs) = 1
    /\ refs[1].kind = "OdooInstance"
    /\ refs[1].name = "demo"
    /\ refs[1].uid = "uid-1"

\* C23: every resource the handlers create carries one owner reference with
\* the name and uid of the instance: the body of every create call of the
\* volume claim handler and the claim the platform then holds, and the bodies
\* the git secret, ingress route and upgrade job handlers build; the body of
\* every patch has the owner references of the claim as observed.
C23_OwnerReferenceKept ==
    /\ \A k \in 1..Len(p_calls) :
        /\ p_calls[k].verb = "create" => OwnedByInstance(p_calls[k].body.owner_references)
        /\ p_calls[k].verb = "patch" =>
               p_calls[k].body.owner_references = p_before.owner_references
    /\ pvc.present => OwnedByInstance(pvc.owner_references)
    /\ OwnedByInstance(IngressRoute_build_ingress_route_spec.owner_references)
    /\ OwnedByInstance(GitSecret_get_resource_body(
                           "git-key", [status |-> 200, body |-> NoSecret]).value.owner_references)
    /\ OwnedByInstance(UpgradeJob_get_resource_body(spec).owner_references)

\* a claim the handler had created was patched to a larger size and still has
\* the owner reference to the instance
C23_Witness ==
    /\ p_op = "handle_update"
    /\ Len(p_calls) = 1
    /\ p_calls[1].verb = "patch"
    /\ ~p_raised
    /\ pvc # p_before
    /\ OwnedByInstance(p_before.owner_references)
    /\ OwnedByInstance(pvc.owner_references)

(***************************************************************************)
(* Convergence of the volume claim under redelivery (PvcFairSpec)          *)
(***************************************************************************)
\* the last call was a handle_create or handle_update whose read was answered
Retried == p_op \in {"handle_create", "handle_update"} /\ ~ReadFaulted

\* the handler call returned and the claim is there with the requested capacity
\* or more
Converged ==
    /\ p_op \in {"handle_create", "handle_update"}
    /\ ~p_raised
    /\ pvc.present
    /\ Capacity(pvc.storage) >= Capacity(requested_size)

\* C26: once the spec is left alone, nothing is deleted and the platform
\* answers, redelivering the event brings the handler to return without error
\* with the resource in its desired state.
C26_ConvergesUnderRetry == <>[]Retried => <>Converged

C28_GateIsReadNotLock ==
    [][(/\ pc = "_handle_upgrade"
        /\ ~sync_running
        /\ ActiveJobs = {}
        /\ pc' = "done") => (ActiveJobs' # {} /\ sync_running' = sync_running)]_vars

\* C30: an Updated event on a spec with a valid upgrade request is classified
\* UpgradeRequested, calls no handler of the regular pipeline and leaves the
\* pipeline's resources as they were.
C30_PendingRequestStarvesPipeline ==
    /\ []((event = "Updated" /\ ValidRequest(h_spec)) =>
            /\ classified = "UpgradeRequested"
            /\ \A k \in 1..Len(calls) : calls[k].h \notin HandlerNames)
    /\ [][(event = "Updated" /\ ValidRequest(h_spec)) => exists' = exists]_vars

\* an Updated event has ended on a spec whose request was never cleared because
\* its job failed
C30_Witness ==
    /\ event = "Updated"
    /\ pc = "done"
    /\ ValidRequest(spec)
    /\ TrackedStatus = "failed"
    /\ classified = "UpgradeRequested"
    /\ Len(calls) = 1

====
